---------------------------- MODULE Spec2Model ----------------------------
(***************************************************************************)
(* Model of dsw2to3/migration/registry.py: the registry migration.         *)
(*                                                                         *)
(*   RegistryEntities  the in-memory snapshot and its integrity checker    *)
(*   RegistryMigrator  migrate(): cleanup, load, check, insert, assets     *)
(*                                                                         *)
(* Two specifications share the definitions of the checker:                *)
(*   SpecCheck  check_integrity called repeatedly on a loaded snapshot     *)
(*   Spec       one run of the orchestrator (migrate, then finish)         *)
(***************************************************************************)
EXTENDS Integers, Sequences, FiniteSets, TLC

VARIABLES
    entities,     \* RegistryEntities: the seven lists and result (_result)
    uuid4_count,  \* number of uuid.uuid4() values drawn so far
    chk,          \* position inside RegistryEntities.check_integrity
    returned,     \* contents of the list at each return of check_integrity
    options,      \* MigrationOptions: dry_run, fix_integrity
    pc,           \* position inside the orchestrator's run
    postgres,     \* target store: connection, transaction, committed tables
    s3,           \* object store: bucket and stored objects
    mongo,        \* source store: documents and asset payloads
    ops,          \* calls issued so far: <<phase, call, table or entity, number>>
    tally         \* migrate_template_assets: counter and skipped

vars == <<entities, uuid4_count, chk, returned, options, pc, postgres, s3, mongo, ops, tally>>

-----------------------------------------------------------------------------
(* Bounds of the model *)

\* Largest number of records in a loaded snapshot (all kinds together).
MaxRecords == 2

\* Largest number of non-null package references in a snapshot.
MaxRefs == 2

\* Non-null package references in the source store of a run of the
\* orchestrator.
MaxRunRefs == 1

\* Largest number of check_integrity calls on one snapshot (SpecCheck).
MaxCalls == 2

\* Largest number of Template and TemplateAsset documents (SpecAssets).
MaxTemplateDocs == 3

\* Identity values records carry; references also range over one value
\* that no record carries.
Ids == {1, 2}
RefIds == Ids \cup {Cardinality(Ids) + 1}

\* Python's None (a reference "is not None" otherwise).
Null == 0

-----------------------------------------------------------------------------
(* Entities *)

\* RegistryEntities.LIST_ENTITY, in dictionary order: <<list name, entity>>.
LIST_ENTITY == <<
    <<"action_keys", "ActionKey">>,
    <<"audit_entries", "AuditEntry">>,
    <<"organizations", "Organization">>,
    <<"packages", "Package">>,
    <<"templates", "Template">>,
    <<"template_assets", "TemplateAsset">>,
    <<"template_files", "TemplateFile">> >>

ENTITIES == {LIST_ENTITY[k][2] : k \in DOMAIN LIST_ENTITY}

ENTITY_LIST(entity) ==
    LET k == CHOOSE j \in DOMAIN LIST_ENTITY : LIST_ENTITY[j][2] = entity
    IN  LIST_ENTITY[k][1]

list_by_entity(self, entity) == self[ENTITY_LIST(entity)]

ActionKey_get_id(item) == item.uuid

\* f'{organization_id}_{uuid4()}': token is the uuid4 value drawn by this call.
AuditEntry_get_id(item, token) == <<item.organization_id, token>>

Organization_get_id(item) == item.organization_id

Package_get_id(item) == item.id

Template_get_id(item) == item.id

TemplateAsset_get_id(item) == item.uuid

TemplateFile_get_id(item) == item.uuid

\* item.get_id(), dispatched on the item's class.
get_id(item, entity, token) ==
    CASE entity = "ActionKey" -> ActionKey_get_id(item)
      [] entity = "AuditEntry" -> AuditEntry_get_id(item, token)
      [] entity = "Organization" -> Organization_get_id(item)
      [] entity = "Package" -> Package_get_id(item)
      [] entity = "Template" -> Template_get_id(item)
      [] entity = "TemplateAsset" -> TemplateAsset_get_id(item)
      [] entity = "TemplateFile" -> TemplateFile_get_id(item)

\* How many uuid4 values one get_id call on this entity draws.
uuid4_draws(entity) == IF entity = "AuditEntry" THEN 1 ELSE 0

\* Variant: every position of the list, whatever the marker.
valid_entries_all(self, entity) == DOMAIN list_by_entity(self, entity)

\* Positions of the list's items with integrity_ok is not False.
valid_entries(self, entity) ==
    LET lst == list_by_entity(self, entity)
    IN  {k \in DOMAIN lst : lst[k].integrity_ok # FALSE}

\* for entity in self.ENTITIES: self.list_by_entity(entity).clear()
\* The seven lists are emptied; _result is left as it is.
clear(self) ==
    [f \in DOMAIN self |->
        IF f \in {ENTITY_LIST(e) : e \in ENTITIES} THEN <<>> ELSE self[f]]

DuplicateMessage(entity, item_id) == <<"Duplicate ID for", entity, item_id>>

MissingMessage(target_entity, field_name, ref_id, entity, item_id) ==
    <<"Missing", target_entity, field_name, ref_id, "for", entity, item_id>>

-----------------------------------------------------------------------------
(* RegistryEntities._check_uniqueness *)

\* Variant: the identity is added to unique_set before it is looked up.
flags_duplicate_after_add(item, item_id, unique_set) == item_id \in unique_set \cup {item_id}

\* Variant: only items still marked valid are looked up.
flags_duplicate_if_valid(item, item_id, unique_set) ==
    item.integrity_ok # FALSE /\ item_id \in unique_set

\* if item_id in unique_set
flags_duplicate(item, item_id, unique_set) == item_id \in unique_set

\* The loop over getattr(self, list_name) from position k on, with the
\* unique_set built so far and tok uuid4 values drawn so far.
RECURSIVE uniqueness_loop(_, _, _, _, _, _)
uniqueness_loop(self, list_name, entity, k, unique_set, tok) ==
    IF k > Len(self[list_name])
    THEN [self |-> self, uuid4_count |-> tok]
    ELSE LET item == self[list_name][k]
             item_id == get_id(item, entity, tok + 1)
             dup == flags_duplicate(item, item_id, unique_set)
             flipped == IF dup
                        THEN [self EXCEPT ![list_name][k].integrity_ok = FALSE,
                                          !.result = Append(@, DuplicateMessage(entity, item_id))]
                        ELSE self
         IN  uniqueness_loop(flipped, list_name, entity, k + 1,
                             unique_set \cup {item_id}, tok + uuid4_draws(entity))

check_uniqueness(self, list_name, entity, tok) ==
    uniqueness_loop(self, list_name, entity, 1, {}, tok)

\* for lst, e in self.LIST_ENTITY.items(): self._check_uniqueness(lst, e)
RECURSIVE check_uniqueness_all(_, _, _)
check_uniqueness_all(self, j, tok) ==
    IF j > Len(LIST_ENTITY)
    THEN [self |-> self, uuid4_count |-> tok]
    ELSE LET r == check_uniqueness(self, LIST_ENTITY[j][1], LIST_ENTITY[j][2], tok)
         IN  check_uniqueness_all(r.self, j + 1, r.uuid4_count)

-----------------------------------------------------------------------------
(* RegistryEntities._check_references *)

\* Variant: the identities of all entries, valid or not.
make_ids_set_all(self, entity) ==
    {get_id(list_by_entity(self, entity)[k], entity, 0) :
        k \in DOMAIN list_by_entity(self, entity)}

\* {item.get_id() for item in self.valid_entries(entity)}
make_ids_set(self, entity) ==
    {get_id(list_by_entity(self, entity)[k], entity, 0) : k \in valid_entries(self, entity)}

\* if ref_id not in ids_set
reference_missing(ref_id, ids_set) == ref_id \notin ids_set

\* Variant: None is looked up like any other value.
optional_reference_missing_or_none(ref_id, ids_set) == ref_id \notin ids_set

\* if ref_id is not None and ref_id not in ids_set
optional_reference_missing(ref_id, ids_set) == ref_id # Null /\ ref_id \notin ids_set

RECURSIVE reference_loop(_, _, _, _, _, _)
reference_loop(self, entity, target_entity, field_name, ids_set, k) ==
    LET list_name == ENTITY_LIST(entity)
    IN  IF k > Len(self[list_name])
        THEN self
        ELSE LET item == self[list_name][k]
                 ref_id == item[field_name]
                 next == IF k \in valid_entries(self, entity) /\ reference_missing(ref_id, ids_set)
                         THEN [self EXCEPT
                                 ![list_name][k].integrity_ok = FALSE,
                                 !.result = Append(@, MissingMessage(target_entity, field_name,
                                                     ref_id, entity, get_id(item, entity, 0)))]
                         ELSE self
             IN  reference_loop(next, entity, target_entity, field_name, ids_set, k + 1)

check_reference(self, entity, target_entity, field_name, ids_set) ==
    reference_loop(self, entity, target_entity, field_name, ids_set, 1)

RECURSIVE optional_reference_loop(_, _, _, _, _, _)
optional_reference_loop(self, entity, target_entity, field_name, ids_set, k) ==
    LET list_name == ENTITY_LIST(entity)
    IN  IF k > Len(self[list_name])
        THEN self
        ELSE LET item == self[list_name][k]
                 ref_id == item[field_name]
                 next == IF /\ k \in valid_entries(self, entity)
                            /\ optional_reference_missing(ref_id, ids_set)
                         THEN [self EXCEPT
                                 ![list_name][k].integrity_ok = FALSE,
                                 !.result = Append(@, MissingMessage(target_entity, field_name,
                                                     ref_id, entity, get_id(item, entity, 0)))]
                         ELSE self
             IN  optional_reference_loop(next, entity, target_entity, field_name, ids_set, k + 1)

check_optional_reference(self, entity, target_entity, field_name, ids_set) ==
    optional_reference_loop(self, entity, target_entity, field_name, ids_set, 1)

\* Variant: the id sets are collected again before each check.
references_pass_live(self) ==
    LET r1 == check_reference(self, "ActionKey", "Organization", "organization_id",
                              make_ids_set(self, "Organization"))
        r2 == check_optional_reference(r1, "Package", "Package", "previous_package_id",
                                       make_ids_set(r1, "Package"))
        r3 == check_optional_reference(r2, "Package", "Package", "fork_of_package_id",
                                       make_ids_set(r2, "Package"))
        r4 == check_optional_reference(r3, "Package", "Package", "merge_checkpoint_package_id",
                                       make_ids_set(r3, "Package"))
        r5 == check_reference(r4, "TemplateAsset", "Template", "template_id",
                              make_ids_set(r4, "Template"))
    IN  check_reference(r5, "TemplateFile", "Template", "template_id",
                        make_ids_set(r5, "Template"))

\* Variant: AuditEntry.organization_id is checked like ActionKey's.
references_pass_audit(self) ==
    LET user_ids == make_ids_set(self, "Organization")
        package_ids == make_ids_set(self, "Package")
        template_ids == make_ids_set(self, "Template")
        r0 == check_reference(self, "AuditEntry", "Organization", "organization_id", user_ids)
        r1 == check_reference(r0, "ActionKey", "Organization", "organization_id", user_ids)
        r2 == check_optional_reference(r1, "Package", "Package", "previous_package_id", package_ids)
        r3 == check_optional_reference(r2, "Package", "Package", "fork_of_package_id", package_ids)
        r4 == check_optional_reference(r3, "Package", "Package", "merge_checkpoint_package_id", package_ids)
        r5 == check_reference(r4, "TemplateAsset", "Template", "template_id", template_ids)
    IN  check_reference(r5, "TemplateFile", "Template", "template_id", template_ids)

\* The six checks of one pass, against the id sets collected before them.
references_pass(self) ==
    LET user_ids == make_ids_set(self, "Organization")
        package_ids == make_ids_set(self, "Package")
        template_ids == make_ids_set(self, "Template")
        r1 == check_reference(self, "ActionKey", "Organization", "organization_id", user_ids)
        r2 == check_optional_reference(r1, "Package", "Package", "previous_package_id", package_ids)
        r3 == check_optional_reference(r2, "Package", "Package", "fork_of_package_id", package_ids)
        r4 == check_optional_reference(r3, "Package", "Package", "merge_checkpoint_package_id", package_ids)
        r5 == check_reference(r4, "TemplateAsset", "Template", "template_id", template_ids)
    IN  check_reference(r5, "TemplateFile", "Template", "template_id", template_ids)

\* Variant: the lengths are compared with > (the list never shrinks).
pass_changed_if_shorter(prev_len, len) == prev_len > len

\* Variant: the lengths are compared with <= (the list never shrinks).
pass_changed_if_not_shorter(prev_len, len) == prev_len <= len

\* return prev_len != len(self._result)
pass_changed(prev_len, len) == prev_len # len

\* The snapshot after the pass and the pass's return value.
check_references(self) ==
    LET prev_len == Len(self.result)
        checked == references_pass(self)
    IN  [self |-> checked, changed |-> pass_changed(prev_len, Len(checked.result))]

-----------------------------------------------------------------------------
(* Records the source store can hold *)

EmptyEntities ==
    [action_keys |-> <<>>, audit_entries |-> <<>>, organizations |-> <<>>,
     packages |-> <<>>, templates |-> <<>>, template_assets |-> <<>>,
     template_files |-> <<>>, result |-> <<>>]

\* Records as from_mongo builds them: integrity_ok defaults to True.
NewRecords(entity) ==
    CASE entity = "ActionKey" ->
           [uuid : Ids, organization_id : RefIds, integrity_ok : {TRUE}]
      [] entity = "AuditEntry" ->
           [organization_id : RefIds, integrity_ok : {TRUE}]
      [] entity = "Organization" ->
           [organization_id : Ids, integrity_ok : {TRUE}]
      [] entity = "Package" ->
           [id : Ids, previous_package_id : RefIds \cup {Null},
            fork_of_package_id : RefIds \cup {Null},
            merge_checkpoint_package_id : RefIds \cup {Null}, integrity_ok : {TRUE}]
      [] entity = "Template" ->
           [id : Ids, integrity_ok : {TRUE}]
      [] entity = "TemplateAsset" ->
           {[uuid |-> u, template_id |-> t, original_uuid |-> u, integrity_ok |-> TRUE] :
               u \in Ids, t \in RefIds}
      [] entity = "TemplateFile" ->
           [uuid : Ids, template_id : RefIds, integrity_ok : {TRUE}]

PackageRefFields ==
    {"previous_package_id", "fork_of_package_id", "merge_checkpoint_package_id"}

CountRefs(self) ==
    Cardinality({p \in (DOMAIN self.packages) \X PackageRefFields :
                    self.packages[p[1]][p[2]] # Null})

Total(self) ==
    Len(self.action_keys) + Len(self.audit_entries) + Len(self.organizations)
    + Len(self.packages) + Len(self.templates) + Len(self.template_assets)
    + Len(self.template_files)

-----------------------------------------------------------------------------
(* RegistryEntities.check_integrity, one reference pass per step *)

\* i counts the reference passes made by the call.
ChkIdle == [pc |-> "idle", check_again |-> FALSE, i |-> 0, calls |-> 0]

\* self._result.clear(), then the uniqueness pass of every kind.
check_integrity_enter ==
    /\ chk.pc = "idle"
    /\ LET r == check_uniqueness_all([entities EXCEPT !.result = <<>>], 1, uuid4_count)
       IN  /\ entities' = r.self
           /\ uuid4_count' = r.uuid4_count
    /\ chk' = [pc |-> "references", check_again |-> TRUE, i |-> 0, calls |-> chk.calls + 1]

\* check_again = self._check_references(): the first pass and each pass of
\* the while loop.
check_integrity_pass ==
    /\ chk.pc = "references"
    /\ chk.check_again
    /\ LET r == check_references(entities)
       IN  /\ entities' = r.self
           /\ chk' = [chk EXCEPT !.check_again = r.changed, !.i = @ + 1]
    /\ UNCHANGED uuid4_count

\* return self._result
check_integrity_return ==
    /\ chk.pc = "references"
    /\ ~chk.check_again
    /\ chk' = [chk EXCEPT !.pc = "idle"]
    /\ returned' = Append(returned, entities.result)
    /\ UNCHANGED <<entities, uuid4_count>>

-----------------------------------------------------------------------------
(* Stores *)

TABLE_NAME(entity) ==
    CASE entity = "ActionKey" -> "action_key"
      [] entity = "AuditEntry" -> "audit"
      [] entity = "Organization" -> "organization"
      [] entity = "Package" -> "package"
      [] entity = "Template" -> "template"
      [] entity = "TemplateAsset" -> "template_asset"
      [] entity = "TemplateFile" -> "template_file"

TABLES == {TABLE_NAME(e) : e \in ENTITIES}

\* A row the target store held before the run.
OldRow == <<"old", 0>>

\* An object the bucket held before the run.
OldObject == <<0, 0>>

\* PostgresDB(config.postgres), MongoDB(config.mongo), S3Storage(config.s3):
\* each client is connected when the migrator is constructed; closes counts
\* the close() calls it has received.
InitPostgres ==
    [closes |-> 0,
     tables |-> [t \in TABLES |-> <<OldRow>>],
     committed |-> [t \in TABLES |-> <<OldRow>>],
     triggers |-> [t \in TABLES |-> TRUE]]

InitS3States ==
    {[closes |-> 0, bucket |-> FALSE, objects |-> {}],
     [closes |-> 0, bucket |-> TRUE, objects |-> {}],
     [closes |-> 0, bucket |-> TRUE, objects |-> {OldObject}]}

\* The source store before any document is read: payloads are the original
\* uuids it holds an asset payload for.
InitMongo ==
    [closes |-> 0, payloads |-> {1},
     action_keys |-> <<>>, audit_entries |-> <<>>, organizations |-> <<>>,
     packages |-> <<>>, templates |-> <<>>, template_assets |-> <<>>,
     template_files |-> <<>>]

postgres_commit(pg) == [pg EXCEPT !.committed = pg.tables]

\* The store client's batch insert: one row per instance, in order.
postgres_execute_loop(pg, entity, instances) ==
    [pg EXCEPT !.tables[TABLE_NAME(entity)] =
        @ \o [j \in DOMAIN instances |-> <<entity, instances[j]>>]]

\* fetch_asset returns the payload, or None when the store has none.
mongo_fetch_asset(src, original_uuid) == original_uuid \in src.payloads

\* What the error handler does to the run: it ends it.
ERROR_HANDLER_critical(continue) == "aborted"

ERROR_HANDLER_error(continue) == "aborted"

\* An exception that no handler of migrate() catches leaves migrate(): the
\* run ends there.
uncaught(continue) == "aborted"

-----------------------------------------------------------------------------
(* RegistryMigrator *)

\* Variant: organization is listed before action_key.
TABLES_CLEANUP_parents_first ==
    <<"organization", "audit", "action_key", "template_asset",
      "template_file", "template", "package">>

TABLES_CLEANUP ==
    <<"action_key", "audit", "organization", "template_asset",
      "template_file", "template", "package">>

LOAD_ENTITIES_SIMPLE == <<"ActionKey", "AuditEntry", "Organization", "Package", "Template">>

LOAD_ENTITIES_NESTED ==
    << <<"TemplateAsset", "Template", "assets">>, <<"TemplateFile", "Template", "files">> >>

INSERT_ARGS ==
    << <<"Package", TRUE>>, <<"Template", FALSE>>, <<"AuditEntry", FALSE>>,
       <<"Organization", FALSE>>, <<"ActionKey", FALSE>>,
       <<"TemplateAsset", FALSE>>, <<"TemplateFile", FALSE>> >>

\* Variant: the snapshot is loaded before the object store is prepared.
MIGRATE_load_early ==
    <<"cleanup_postgres", "load", "cleanup_s3", "check_integrity", "insert",
      "migrate_template_assets">>

\* The phases of migrate(), in the order it calls them.
MIGRATE ==
    <<"cleanup_postgres", "cleanup_s3", "load", "check_integrity", "insert",
      "migrate_template_assets">>

\* Where migrate() goes when a phase returns.
after(phase) ==
    LET k == CHOOSE j \in DOMAIN MIGRATE : MIGRATE[j] = phase
    IN  IF k < Len(MIGRATE) THEN MIGRATE[k + 1] ELSE "migrated"

Call(phase) == <<phase, "call", "", 0>>
Return(phase) == <<phase, "return", "", 0>>

(* cleanup_postgres *)

\* The DELETE loop from table k on; the fail-th statement raises.
RECURSIVE delete_loop(_, _, _, _)
delete_loop(pg, log, k, fail) ==
    IF k > Len(TABLES_CLEANUP)
    THEN [postgres |-> pg, ops |-> log, raised |-> FALSE]
    ELSE LET table == TABLES_CLEANUP[k]
             stmt == <<"cleanup_postgres", "DELETE FROM", table, Len(pg.tables[table])>>
         IN  IF fail = k
             THEN [postgres |-> pg, ops |-> Append(log, stmt), raised |-> TRUE]
             ELSE delete_loop([pg EXCEPT !.tables[table] = <<>>], Append(log, stmt),
                              k + 1, fail)

\* Variant: the test of dry_run is not negated.
cleanup_commits_if_dry(opts) == opts.dry_run

\* if not self.options.dry_run
cleanup_commits(opts) == ~opts.dry_run

\* What raises inside the try block: nothing (fail = 0), the fail-th DELETE,
\* the commit, new_cursor() before any statement, or the cursor's __exit__
\* when the with block is left.
commit_raises(fail) == fail = Len(TABLES_CLEANUP) + 1

new_cursor_raises(fail) == fail = Len(TABLES_CLEANUP) + 2

cursor_exit_raises(fail) == fail = Len(TABLES_CLEANUP) + 3

cleanup_postgres(pg, log, opts, fail) ==
    IF new_cursor_raises(fail)
    THEN [postgres |-> pg, ops |-> log, raised |-> TRUE]
    ELSE LET d == delete_loop(pg, log, 1, fail)
             commit == <<"cleanup_postgres", "commit", "", 0>>
         IN  IF d.raised THEN d
             ELSE IF ~cleanup_commits(opts)
                  THEN [d EXCEPT !.raised = cursor_exit_raises(fail)]
                  ELSE IF commit_raises(fail)
                       THEN [postgres |-> d.postgres, ops |-> Append(d.ops, commit),
                             raised |-> TRUE]
                       ELSE [postgres |-> postgres_commit(d.postgres),
                             ops |-> Append(d.ops, commit),
                             raised |-> cursor_exit_raises(fail)]

\* Any exception of the try block is handed to ERROR_HANDLER.critical.
CleanupPostgres ==
    /\ pc = "cleanup_postgres"
    /\ \E fail \in 0 .. (Len(TABLES_CLEANUP) + 3) :
          /\ commit_raises(fail) => cleanup_commits(options)
          /\ LET r == cleanup_postgres(postgres, Append(ops, Call("cleanup_postgres")),
                                       options, fail)
             IN  /\ postgres' = r.postgres
                 /\ ops' = IF r.raised THEN r.ops
                           ELSE Append(r.ops, Return("cleanup_postgres"))
                 /\ pc' = IF r.raised THEN ERROR_HANDLER_critical(after("cleanup_postgres"))
                          ELSE after("cleanup_postgres")
    /\ UNCHANGED <<entities, uuid4_count, chk, returned, options, s3, mongo, tally>>

(* cleanup_s3 *)

\* The calls of cleanup_s3 on the object store client; each of them may raise,
\* "none" is the run in which none does.
CLEANUP_S3_FAILURES ==
    {"none", "bucket_exists", "count_templates", "delete_templates", "ensure_bucket"}

\* A call that raises has no effect on the store; nothing in cleanup_s3
\* catches the exception.
cleanup_s3(store, log, opts, raises) ==
    LET exists == Append(log, <<"cleanup_s3", "bucket_exists", "", 0>>)
    IN  IF raises = "bucket_exists"
        THEN [s3 |-> store, ops |-> exists, raised |-> TRUE]
        ELSE IF store.bucket
        THEN LET templates == Cardinality(store.objects)
                 counted == Append(exists, <<"cleanup_s3", "count_templates", "", templates>>)
                 deleted == Append(counted, <<"cleanup_s3", "delete_templates", "", 0>>)
             IN  IF raises = "count_templates"
                 THEN [s3 |-> store, ops |-> counted, raised |-> TRUE]
                 ELSE IF templates > 0 /\ ~opts.dry_run
                 THEN IF raises = "delete_templates"
                      THEN [s3 |-> store, ops |-> deleted, raised |-> TRUE]
                      ELSE [s3 |-> [store EXCEPT !.objects = {}], ops |-> deleted,
                            raised |-> FALSE]
                 ELSE [s3 |-> store, ops |-> counted, raised |-> FALSE]
        ELSE LET ensured == Append(exists, <<"cleanup_s3", "ensure_bucket", "", 0>>)
             IN  IF ~opts.dry_run
                 THEN IF raises = "ensure_bucket"
                      THEN [s3 |-> store, ops |-> ensured, raised |-> TRUE]
                      ELSE [s3 |-> [store EXCEPT !.bucket = TRUE], ops |-> ensured,
                            raised |-> FALSE]
                 ELSE [s3 |-> store, ops |-> exists, raised |-> FALSE]

CleanupS3 ==
    /\ pc = "cleanup_s3"
    /\ \E raises \in CLEANUP_S3_FAILURES :
          LET r == cleanup_s3(s3, Append(ops, Call("cleanup_s3")), options, raises)
          IN  /\ s3' = r.s3
              /\ ops' = IF r.raised THEN r.ops ELSE Append(r.ops, Return("cleanup_s3"))
              /\ pc' = IF r.raised THEN uncaught(after("cleanup_s3"))
                       ELSE after("cleanup_s3")
    /\ UNCHANGED <<entities, uuid4_count, chk, returned, options, postgres, mongo, tally>>

(* load *)

\* The source store holds one more document when load() reads it.
MongoDocument ==
    /\ pc = "load"
    /\ Total(mongo) < MaxRecords
    /\ \E e \in ENTITIES : \E r \in NewRecords(e) :
          /\ mongo' = [mongo EXCEPT ![ENTITY_LIST(e)] = Append(@, r)]
          /\ CountRefs(mongo') <= MaxRefs
    /\ UNCHANGED <<entities, uuid4_count, chk, returned, options, pc, postgres, s3, ops, tally>>

\* The same, for the runs of the orchestrator: the source store a run reads
\* holds at most MaxRunRefs package references.
MongoRunDocument ==
    /\ pc = "load"
    /\ Total(mongo) < MaxRecords
    /\ \E e \in ENTITIES : \E r \in NewRecords(e) :
          /\ mongo' = [mongo EXCEPT ![ENTITY_LIST(e)] = Append(@, r)]
          /\ CountRefs(mongo') <= MaxRunRefs
    /\ UNCHANGED <<entities, uuid4_count, chk, returned, options, pc, postgres, s3, ops, tally>>

mongo_load_list(src, entity) == src[ENTITY_LIST(entity)]

mongo_load_nested(src, source_entity, target_entity, field) == src[ENTITY_LIST(target_entity)]

\* The calls of load() on the source store client, by position: update_now,
\* then one load_list per simple entity, then one load_nested per nested
\* entity. fail is the position of the call that raises, 0 when none does.
update_now_raises(fail) == fail = 1

load_list_raises(fail, k) == fail = 1 + k

load_nested_raises(fail, k) == fail = 1 + Len(LOAD_ENTITIES_SIMPLE) + k

LOAD_FAILURES == 0 .. (1 + Len(LOAD_ENTITIES_SIMPLE) + Len(LOAD_ENTITIES_NESTED))

\* A list is replaced when its read has returned; a read that raises ends
\* the loop with the lists read before it replaced and the others as they
\* were.
RECURSIVE load_simple(_, _, _, _)
load_simple(self, src, k, fail) ==
    IF k > Len(LOAD_ENTITIES_SIMPLE) THEN [entities |-> self, raised |-> FALSE]
    ELSE IF load_list_raises(fail, k) THEN [entities |-> self, raised |-> TRUE]
    ELSE LET entity == LOAD_ENTITIES_SIMPLE[k]
         IN  load_simple([self EXCEPT ![ENTITY_LIST(entity)] = mongo_load_list(src, entity)],
                         src, k + 1, fail)

RECURSIVE load_nested(_, _, _, _)
load_nested(self, src, k, fail) ==
    IF k > Len(LOAD_ENTITIES_NESTED) THEN [entities |-> self, raised |-> FALSE]
    ELSE IF load_nested_raises(fail, k) THEN [entities |-> self, raised |-> TRUE]
    ELSE LET a == LOAD_ENTITIES_NESTED[k]
         IN  load_nested([self EXCEPT ![ENTITY_LIST(a[1])] =
                                         mongo_load_nested(src, a[2], a[1], a[3])],
                         src, k + 1, fail)

load(self, src, fail) ==
    IF update_now_raises(fail) THEN [entities |-> self, raised |-> TRUE]
    ELSE LET simple == load_simple(self, src, 1, fail)
         IN  IF simple.raised THEN simple
             ELSE load_nested(simple.entities, src, 1, fail)

\* Nothing in load() catches an exception of the source store client.
Load ==
    /\ pc = "load"
    /\ \E fail \in LOAD_FAILURES :
          LET r == load(entities, mongo, fail)
              called == ops \o <<Call("load"), <<"load", "update_now", "", 0>>>>
          IN  /\ entities' = r.entities
              /\ ops' = IF r.raised THEN called ELSE Append(called, Return("load"))
              /\ pc' = IF r.raised THEN uncaught(after("load")) ELSE after("load")
    /\ UNCHANGED <<uuid4_count, chk, returned, options, postgres, s3, mongo, tally>>

(* check_integrity *)

\* Variant: the test of fix_integrity is not negated.
integrity_fatal_if_fix(opts, issues) == opts.fix_integrity /\ Len(issues) > 0

\* if not self.options.fix_integrity and len(issues) > 0
integrity_fatal(opts, issues) == ~opts.fix_integrity /\ Len(issues) > 0

\* issues = self.entities.check_integrity(): the call is entered.
MigratorCheckIntegrityCall ==
    /\ pc = "check_integrity"
    /\ chk.calls = 0
    /\ check_integrity_enter
    /\ ops' = Append(ops, Call("check_integrity"))
    /\ UNCHANGED <<returned, options, pc, postgres, s3, mongo, tally>>

ReferencePass ==
    /\ check_integrity_pass
    /\ UNCHANGED <<returned, options, pc, postgres, s3, mongo, ops, tally>>

\* The call returns the issues; they are fatal unless fix_integrity is set.
MigratorCheckIntegrityReturn ==
    /\ pc = "check_integrity"
    /\ check_integrity_return
    /\ IF integrity_fatal(options, entities.result)
       THEN /\ pc' = ERROR_HANDLER_error(after("check_integrity"))
            /\ ops' = ops
       ELSE /\ pc' = after("check_integrity")
            /\ ops' = Append(ops, Return("check_integrity"))
    /\ UNCHANGED <<options, postgres, s3, mongo, tally>>

(* insert *)

\* Variant: every instance is passed on, whatever its marker.
insertable_any(item) == item.integrity_ok \in BOOLEAN

\* e.integrity_ok is True
insertable(item) == item.integrity_ok = TRUE

\* [e for e in instances if e.integrity_ok is True], as positions of the list.
RECURSIVE ok_instances(_, _)
ok_instances(instances, k) ==
    IF k > Len(instances) THEN <<>>
    ELSE (IF insertable(instances[k]) THEN <<k>> ELSE <<>>) \o ok_instances(instances, k + 1)

\* _run_insert; raises names the call of it that raises, if any.  Nothing
\* catches the exception: the calls after it are not made.
run_insert(pg, log, self, entity, disable_triggers, raises) ==
    LET instances == list_by_entity(self, entity)
        ok == ok_instances(instances, 1)
        table == TABLE_NAME(entity)
        log1 == IF disable_triggers
                THEN Append(log, <<"insert", "disable_triggers", table, 0>>) ELSE log
        pg1 == IF disable_triggers THEN [pg EXCEPT !.triggers[table] = FALSE] ELSE pg
        log2 == Append(log1, <<"insert", "execute_loop", table, Len(ok)>>)
        pg2 == postgres_execute_loop(pg1, entity, ok)
        log3 == IF disable_triggers
                THEN Append(log2, <<"insert", "enable_triggers", table, 0>>) ELSE log2
        pg3 == IF disable_triggers THEN [pg2 EXCEPT !.triggers[table] = TRUE] ELSE pg2
    IN  IF disable_triggers /\ raises = "disable_triggers"
        THEN [postgres |-> pg, ops |-> log1, raised |-> TRUE]
        ELSE IF raises = "execute_loop"
             THEN [postgres |-> pg1, ops |-> log2, raised |-> TRUE]
             ELSE IF disable_triggers /\ raises = "enable_triggers"
                  THEN [postgres |-> pg2, ops |-> log3, raised |-> TRUE]
                  ELSE [postgres |-> pg3, ops |-> log3, raised |-> FALSE]

\* for entity, disable_triggers in self._INSERT_ARGS, from the k-th on;
\* fail = <<j, call>>: that call of the j-th _run_insert raises.
RECURSIVE insert_loop(_, _, _, _, _)
insert_loop(pg, log, self, k, fail) ==
    IF k > Len(INSERT_ARGS) THEN [postgres |-> pg, ops |-> log, raised |-> FALSE]
    ELSE LET r == run_insert(pg, log, self, INSERT_ARGS[k][1], INSERT_ARGS[k][2],
                             IF fail[1] = k THEN fail[2] ELSE "none")
         IN  IF r.raised THEN r ELSE insert_loop(r.postgres, r.ops, self, k + 1, fail)

\* Variant: the commit is issued in a dry run too.
insert_commits_always(opts) == opts.dry_run \in BOOLEAN

\* if not self.options.dry_run
insert_commits(opts) == ~opts.dry_run

\* The points of insert() at which a call of the target store client raises:
\* none, a call of one _run_insert, or the commit.
insert_commit_raises(fail) == fail = <<Len(INSERT_ARGS) + 1, "commit">>

INSERT_FAILURES ==
    {<<0, "none">>, <<Len(INSERT_ARGS) + 1, "commit">>}
    \cup {<<k, "execute_loop">> : k \in DOMAIN INSERT_ARGS}
    \cup {<<k, c>> : k \in {j \in DOMAIN INSERT_ARGS : INSERT_ARGS[j][2]},
                     c \in {"disable_triggers", "enable_triggers"}}

\* caught is TRUE when the exception was raised inside the try block.
insert(pg, log, self, opts, fail) ==
    LET r == insert_loop(pg, log, self, 1, fail)
        commit == <<"insert", "commit", "", 0>>
    IN  IF r.raised
        THEN [postgres |-> r.postgres, ops |-> r.ops, raised |-> TRUE, caught |-> FALSE]
        ELSE IF ~insert_commits(opts)
             THEN [postgres |-> r.postgres, ops |-> r.ops, raised |-> FALSE, caught |-> FALSE]
             ELSE IF insert_commit_raises(fail)
                  THEN [postgres |-> r.postgres, ops |-> Append(r.ops, commit),
                        raised |-> TRUE, caught |-> TRUE]
                  ELSE [postgres |-> postgres_commit(r.postgres),
                        ops |-> Append(r.ops, commit), raised |-> FALSE, caught |-> FALSE]

\* An exception of the commit goes to ERROR_HANDLER.critical; one raised by
\* a _run_insert call is outside the try block and leaves insert().
Insert ==
    /\ pc = "insert"
    /\ \E fail \in INSERT_FAILURES :
          /\ insert_commit_raises(fail) => insert_commits(options)
          /\ LET r == insert(postgres, Append(ops, Call("insert")), entities, options, fail)
             IN  /\ postgres' = r.postgres
                 /\ ops' = IF r.raised THEN r.ops ELSE Append(r.ops, Return("insert"))
                 /\ pc' = IF ~r.raised THEN after("insert")
                          ELSE IF r.caught THEN ERROR_HANDLER_critical(after("insert"))
                          ELSE uncaught(after("insert"))
    /\ UNCHANGED <<entities, uuid4_count, chk, returned, options, s3, mongo, tally>>

(* migrate_template_assets *)

\* Variant: every position from k on, whatever the marker.
valid_list_all(self, entity, k) ==
    [j \in 1 .. (Len(list_by_entity(self, entity)) - k + 1) |-> j + k - 1]

\* list(self.entities.valid_entries(TemplateAsset)), as positions in order.
RECURSIVE valid_list(_, _, _)
valid_list(self, entity, k) ==
    IF k > Len(list_by_entity(self, entity)) THEN <<>>
    ELSE (IF k \in valid_entries(self, entity) THEN <<k>> ELSE <<>>)
         \o valid_list(self, entity, k + 1)

\* The calls of the loop on the two store clients that may raise: the
\* fetch_asset or the store_template_asset of the j-th asset of the list;
\* <<0, "none">> is the run in which none does.
ASSET_FAILURES(assets) ==
    {<<0, "none">>}
    \cup {<<j, c>> : j \in DOMAIN assets, c \in {"fetch_asset", "store_template_asset"}}

\* A call that raises has no effect on the store and ends the loop; the
\* objects stored before it stay.
RECURSIVE assets_loop(_, _, _, _, _, _, _, _, _)
assets_loop(store, log, self, src, opts, assets, j, count, fail) ==
    IF j > Len(assets) THEN [s3 |-> store, ops |-> log, tally |-> count, raised |-> FALSE]
    ELSE LET k == assets[j]
             asset == self.template_assets[k]
             fetched == Append(log, <<"migrate_template_assets", "fetch_asset", "TemplateAsset", k>>)
             stored == Append(fetched, <<"migrate_template_assets", "store_template_asset",
                                         "TemplateAsset", k>>)
         IN  IF fail = <<j, "fetch_asset">>
             THEN [s3 |-> store, ops |-> fetched, tally |-> count, raised |-> TRUE]
             ELSE IF ~mongo_fetch_asset(src, asset.original_uuid)
             THEN assets_loop(store, fetched, self, src, opts, assets, j + 1,
                              [count EXCEPT !.skipped = @ + 1], fail)
             ELSE IF ~opts.dry_run
                  THEN IF fail = <<j, "store_template_asset">>
                       THEN [s3 |-> store, ops |-> stored, tally |-> count, raised |-> TRUE]
                       ELSE assets_loop(
                              [store EXCEPT !.objects = @ \cup {<<asset.template_id, asset.uuid>>}],
                              stored, self, src, opts, assets, j + 1,
                              [count EXCEPT !.counter = @ + 1], fail)
                  ELSE assets_loop(store, fetched, self, src, opts, assets, j + 1,
                            [count EXCEPT !.counter = @ + 1], fail)

\* Variant: an asset without payload ends the loop (break for continue).
RECURSIVE assets_loop_break(_, _, _, _, _, _, _, _, _)
assets_loop_break(store, log, self, src, opts, assets, j, count, fail) ==
    IF j > Len(assets) THEN [s3 |-> store, ops |-> log, tally |-> count, raised |-> FALSE]
    ELSE LET k == assets[j]
             asset == self.template_assets[k]
             fetched == Append(log, <<"migrate_template_assets", "fetch_asset", "TemplateAsset", k>>)
             stored == Append(fetched, <<"migrate_template_assets", "store_template_asset",
                                         "TemplateAsset", k>>)
         IN  IF fail = <<j, "fetch_asset">>
             THEN [s3 |-> store, ops |-> fetched, tally |-> count, raised |-> TRUE]
             ELSE IF ~mongo_fetch_asset(src, asset.original_uuid)
             THEN [s3 |-> store, ops |-> fetched, tally |-> [count EXCEPT !.skipped = @ + 1],
                   raised |-> FALSE]
             ELSE IF ~opts.dry_run
                  THEN IF fail = <<j, "store_template_asset">>
                       THEN [s3 |-> store, ops |-> stored, tally |-> count, raised |-> TRUE]
                       ELSE assets_loop_break(
                              [store EXCEPT !.objects = @ \cup {<<asset.template_id, asset.uuid>>}],
                              stored, self, src, opts, assets, j + 1,
                              [count EXCEPT !.counter = @ + 1], fail)
                  ELSE assets_loop_break(store, fetched, self, src, opts, assets, j + 1,
                            [count EXCEPT !.counter = @ + 1], fail)

migrate_template_assets_break(store, log, self, src, opts, fail) ==
    assets_loop_break(store, log, self, src, opts, valid_list(self, "TemplateAsset", 1), 1,
                      [counter |-> 0, skipped |-> 0], fail)

migrate_template_assets(store, log, self, src, opts, fail) ==
    assets_loop(store, log, self, src, opts, valid_list(self, "TemplateAsset", 1), 1,
                [counter |-> 0, skipped |-> 0], fail)

\* Nothing in migrate_template_assets catches an exception of a store
\* client: counter and skipped are locals, lost with the frame.
MigrateTemplateAssets ==
    /\ pc = "migrate_template_assets"
    /\ \E fail \in ASSET_FAILURES(valid_list(entities, "TemplateAsset", 1)) :
          LET r == migrate_template_assets(s3, Append(ops, Call("migrate_template_assets")),
                                           entities, mongo, options, fail)
          IN  /\ s3' = r.s3
              /\ ops' = IF r.raised THEN r.ops
                        ELSE Append(r.ops, Return("migrate_template_assets"))
              /\ tally' = IF r.raised THEN tally ELSE r.tally
              /\ pc' = IF r.raised THEN uncaught(after("migrate_template_assets"))
                       ELSE after("migrate_template_assets")
    /\ UNCHANGED <<entities, uuid4_count, chk, returned, options, postgres, mongo>>

(* finish *)

finish(pg) == [pg EXCEPT !.closes = @ + 1]

\* The run ends with finish(), whether migrate() returned or was aborted.
Finish ==
    /\ pc \in {"migrated", "aborted"}
    /\ postgres' = finish(postgres)
    /\ ops' = Append(ops, <<"finish", "close", "", 0>>)
    /\ pc' = "finished"
    /\ UNCHANGED <<entities, uuid4_count, chk, returned, options, s3, mongo, tally>>

(* RegistryEntities.clear *)

\* clear() is called on the migrator's entities between two calls of its
\* other methods.
Clear ==
    /\ chk.pc = "idle"
    /\ entities' = clear(entities)
    /\ UNCHANGED <<uuid4_count, chk, returned, options, pc, postgres, s3, mongo, ops, tally>>

-----------------------------------------------------------------------------
(* Spec: one run of the orchestrator *)

Init ==
    /\ entities = EmptyEntities
    /\ uuid4_count = 0
    /\ chk = ChkIdle
    /\ returned = <<>>
    /\ options \in [dry_run : BOOLEAN, fix_integrity : BOOLEAN]
    /\ pc = "cleanup_postgres"
    /\ postgres = InitPostgres
    /\ s3 \in InitS3States
    /\ mongo = InitMongo
    /\ ops = <<>>
    /\ tally = [counter |-> 0, skipped |-> 0]

Next ==
    \/ CleanupPostgres
    \/ CleanupS3
    \/ MongoRunDocument
    \/ Load
    \/ MigratorCheckIntegrityCall
    \/ ReferencePass
    \/ MigratorCheckIntegrityReturn
    \/ Insert
    \/ MigrateTemplateAssets
    \/ Finish
    \/ Clear

Spec == Init /\ [][Next]_vars

-----------------------------------------------------------------------------
(* SpecCheck: a snapshot is loaded, then check_integrity is called on it,  *)
(* up to MaxCalls times                                                    *)

InitCheck ==
    /\ entities = EmptyEntities
    /\ uuid4_count = 0
    /\ chk = ChkIdle
    /\ returned = <<>>
    /\ options = [dry_run |-> FALSE, fix_integrity |-> FALSE]
    /\ pc = "load"
    /\ postgres = InitPostgres
    /\ s3 = [closes |-> 0, bucket |-> TRUE, objects |-> {}]
    /\ mongo = InitMongo
    /\ ops = <<>>
    /\ tally = [counter |-> 0, skipped |-> 0]

CallCheckIntegrity ==
    /\ pc = "check_integrity"
    /\ chk.calls < MaxCalls
    /\ check_integrity_enter
    /\ UNCHANGED <<returned, options, pc, postgres, s3, mongo, ops, tally>>

ReturnCheckIntegrity ==
    /\ chk.calls <= MaxCalls
    /\ check_integrity_return
    /\ UNCHANGED <<options, pc, postgres, s3, mongo, ops, tally>>

NextCheck ==
    \/ MongoDocument
    \/ Load
    \/ CallCheckIntegrity
    \/ ReferencePass
    \/ ReturnCheckIntegrity
    \/ Clear

SpecCheck == InitCheck /\ [][NextCheck]_vars

\* The call is inside its reference loop: exactly then a pass or the return
\* can be made.
CallRunning == chk.pc = "references"

\* The call runs on (weak fairness of the pass and the return, their
\* enabling condition written as CallRunning): a pass or a return that can
\* be made is made.
SpecCheckLive ==
    SpecCheck /\ ([]<>(~CallRunning) \/ []<><<ReferencePass \/ ReturnCheckIntegrity>>_vars)

-----------------------------------------------------------------------------
(* SpecAssets: runs of the orchestrator over source stores that hold      *)
(* templates and template assets only                                      *)

\* The source store holds one more template or template asset when load()
\* reads it.
MongoTemplateDocument ==
    /\ pc = "load"
    /\ Len(mongo.templates) + Len(mongo.template_assets) < MaxTemplateDocs
    /\ \E e \in {"Template", "TemplateAsset"} : \E r \in NewRecords(e) :
          mongo' = [mongo EXCEPT ![ENTITY_LIST(e)] = Append(@, r)]
    /\ UNCHANGED <<entities, uuid4_count, chk, returned, options, pc, postgres, s3, ops, tally>>

NextAssets ==
    \/ CleanupPostgres
    \/ CleanupS3
    \/ MongoTemplateDocument
    \/ Load
    \/ MigratorCheckIntegrityCall
    \/ ReferencePass
    \/ MigratorCheckIntegrityReturn
    \/ Insert
    \/ MigrateTemplateAssets
    \/ Finish
    \/ Clear

SpecAssets == Init /\ [][NextAssets]_vars

-----------------------------------------------------------------------------
(* Properties of RegistryEntities.check_integrity (SpecCheck) *)

\* A call of check_integrity has returned and no other call is under way.
Returned == chk.pc = "idle" /\ chk.calls > 0

\* The lists hold the snapshot load() read: clear() has not emptied it.
SnapshotHeld ==
    \A e \in ENTITIES : Len(list_by_entity(entities, e)) = Len(mongo[ENTITY_LIST(e)])

\* All records of the snapshot, as <<entity, position>>.
Records == UNION {{<<e, k>> : k \in DOMAIN list_by_entity(entities, e)} : e \in ENTITIES}

Item(r) == list_by_entity(entities, r[1])[r[2]]

IsValid(r) == Item(r).integrity_ok

\* The identity of a record of a kind whose identity is a stored field.
IdOf(r) == get_id(Item(r), r[1], 0)

\* A later record with the identity of an earlier record of its list.  An
\* AuditEntry's identity ends in a uuid4 value drawn when it is asked for,
\* so no two AuditEntry identities are equal.
LaterDuplicate(r) ==
    /\ r[1] # "AuditEntry"
    /\ \E j \in 1 .. (r[2] - 1) : IdOf(<<r[1], j>>) = IdOf(r)

\* The references the checker tests on a record: <<target entity, ref id>>.
CheckedRefs(r) ==
    CASE r[1] = "ActionKey" -> {<<"Organization", Item(r).organization_id>>}
      [] r[1] \in {"TemplateAsset", "TemplateFile"} -> {<<"Template", Item(r).template_id>>}
      [] r[1] = "Package" ->
           {<<"Package", Item(r)[f]>> : f \in {g \in PackageRefFields : Item(r)[g] # Null}}
      [] OTHER -> {}

\* The reference names the identity of a record of S of the target kind.
ResolvesIn(t, S) == \E q \in S : q[1] = t[1] /\ IdOf(q) = t[2]

ValidRecords == {r \in Records : IsValid(r)}

\* C1: when check_integrity has returned, every checked reference of a Valid
\* record (a Valid ActionKey's organization_id, a Valid TemplateAsset's or
\* TemplateFile's template_id, a Valid Package's non-null previous, fork-of
\* and merge-checkpoint ids) is the identity of a Valid record of the target
\* kind, and one more reference pass flips no marker and appends no violation.
C1_FixedPoint ==
    Returned =>
        /\ \A r \in ValidRecords : \A t \in CheckedRefs(r) : ResolvesIn(t, ValidRecords)
        /\ check_references(entities) = [self |-> entities, changed |-> FALSE]

\* A returned call that invalidated a record for a missing reference and left
\* Valid a Package with a reference.
C1_Witness ==
    /\ Returned
    /\ \E m \in {entities.result[j] : j \in DOMAIN entities.result} : m[1] = "Missing"
    /\ \E r \in ValidRecords : r[1] = "Package" /\ CheckedRefs(r) # {}

\* The step that clears the result and runs the uniqueness pass of every kind.
UniquenessStep == chk.pc = "idle" /\ chk'.pc = "references"

DuplicateMessagesAfter(e, v) ==
    {j \in DOMAIN entities'.result : entities'.result[j] = DuplicateMessage(e, v)}

LaterDuplicatesOf(e, v) ==
    {r \in Records : r[1] = e /\ LaterDuplicate(r) /\ IdOf(r) = v}

\* C2: the uniqueness pass leaves the first record of each identity of each
\* kind untouched, flips every later record of that identity to Invalid, and
\* appends exactly one "Duplicate ID for" message per such later record and
\* no other message.
C2_UniquenessPass ==
    [][UniquenessStep =>
        /\ \A r \in Records :
              LET flipped == list_by_entity(entities', r[1])[r[2]]
              IN  IF LaterDuplicate(r)
                  THEN flipped = [Item(r) EXCEPT !.integrity_ok = FALSE]
                  ELSE flipped = Item(r)
        /\ \A e \in ENTITIES \ {"AuditEntry"} : \A v \in Ids :
              Cardinality(DuplicateMessagesAfter(e, v)) = Cardinality(LaterDuplicatesOf(e, v))
        /\ \A j \in DOMAIN entities'.result :
              \E r \in Records :
                  LaterDuplicate(r) /\ entities'.result[j] = DuplicateMessage(r[1], IdOf(r))
      ]_vars

\* Two ActionKeys with one uuid, just after the uniqueness pass: the first is
\* Valid, the second Invalid, and one message has been appended.
C2_Witness ==
    /\ chk.pc = "references" /\ chk.i = 0
    /\ Len(entities.action_keys) = 2
    /\ entities.action_keys[1].uuid = entities.action_keys[2].uuid
    /\ entities.action_keys[1].integrity_ok
    /\ ~entities.action_keys[2].integrity_ok
    /\ entities.result = <<DuplicateMessage("ActionKey", entities.action_keys[1].uuid)>>

IsDuplicateMessage(m) == m[1] = "Duplicate ID for"

IsMissingMessage(m) == m[1] = "Missing"

\* C3 as stated: two calls in a row on one loaded snapshot return the same
\* violation list.
C3_SameList == (Len(returned) >= 2 /\ SnapshotHeld) => returned[2] = returned[1]

\* C3, amended: a later call on the same snapshot returns the "Duplicate ID
\* for" messages of the first call, in the same order, and none of its
\* "Missing" messages: the lists are equal only if the first call found no
\* unresolved reference.  (A call made after clear() returns the empty list.)
C3_DuplicatesOnly ==
    \A n \in 2 .. Len(returned) :
        /\ returned[n] \in {SelectSeq(returned[1], IsDuplicateMessage), <<>>}
        /\ SnapshotHeld => returned[n] = SelectSeq(returned[1], IsDuplicateMessage)

\* Two calls have returned; the first list has a duplicate and a missing
\* reference, the second only the duplicate.
C3_Witness ==
    /\ Len(returned) = 2
    /\ \E j \in DOMAIN returned[1] : IsDuplicateMessage(returned[1][j])
    /\ \E j \in DOMAIN returned[1] : IsMissingMessage(returned[1][j])
    /\ Len(returned[2]) = 1
    /\ IsDuplicateMessage(returned[2][1])

\* The records the uniqueness pass leaves Valid.
Survivors == {r \in Records : ~LaterDuplicate(r)}

\* Every checked reference of a record of S names a record of S.
Consistent(S) == \A r \in S : \A t \in CheckedRefs(r) : ResolvesIn(t, S)

GreatestConsistent == UNION {S \in SUBSET Survivors : Consistent(S)}

\* C4: when check_integrity has returned, the Valid records are the greatest
\* set of survivors of the uniqueness pass that is closed under the checked
\* references; so an Invalid record is a later duplicate or has a checked
\* reference that names no finally Valid record.
C4_MaximalConsistent ==
    Returned =>
        /\ ValidRecords = GreatestConsistent
        /\ \A r \in Records \ ValidRecords :
              \/ LaterDuplicate(r)
              \/ \E t \in CheckedRefs(r) : ~ResolvesIn(t, ValidRecords)

\* A returned call on two Packages that name each other: both are Valid.
C4_Witness ==
    /\ Returned
    /\ Len(entities.packages) = 2
    /\ entities.packages[1].previous_package_id = entities.packages[2].id
    /\ entities.packages[2].previous_package_id = entities.packages[1].id
    /\ entities.packages[1].id # entities.packages[2].id
    /\ entities.packages[1].integrity_ok
    /\ entities.packages[2].integrity_ok

\* The snapshot's Packages are A (position a) and B (position b): B's
\* previous_package_id names no package, A's fork_of_package_id names B.
Cascade(a, b) ==
    /\ Len(entities.packages) = 2
    /\ a # b
    /\ LET A == entities.packages[a]
           B == entities.packages[b]
       IN  /\ A.id # B.id
           /\ B.previous_package_id \notin {Null, A.id, B.id}
           /\ B.fork_of_package_id = Null
           /\ B.merge_checkpoint_package_id = Null
           /\ A.fork_of_package_id = B.id
           /\ A.previous_package_id = Null
           /\ A.merge_checkpoint_package_id = Null

IsPackageMessage(m) == m[1] = "Missing" /\ m[6] = "Package"

CascadeMessages(a, b) ==
    LET A == entities.packages[a]
        B == entities.packages[b]
    IN  << MissingMessage("Package", "previous_package_id", B.previous_package_id,
                          "Package", B.id),
           MissingMessage("Package", "fork_of_package_id", B.id, "Package", A.id) >>

\* The first call on the cascade: pass 1 invalidates B only, pass 2
\* invalidates A, and the markers and messages are then final; the call
\* makes one more pass, which finds nothing, and returns.
CascadePasses(a, b) ==
    LET A == entities.packages[a]
        B == entities.packages[b]
        messages == SelectSeq(entities.result, IsPackageMessage)
    IN  /\ chk.i <= 3
        /\ chk.i = 0 /\ chk.pc = "references" => A.integrity_ok /\ B.integrity_ok
        /\ chk.i = 1 => A.integrity_ok /\ ~B.integrity_ok /\ chk.check_again
        /\ chk.i = 2 => /\ ~A.integrity_ok /\ ~B.integrity_ok /\ chk.check_again
                        /\ messages = CascadeMessages(a, b)
        /\ chk.i = 3 => /\ ~A.integrity_ok /\ ~B.integrity_ok /\ ~chk.check_again
                        /\ messages = CascadeMessages(a, b)
        /\ Returned => chk.i = 3

ReferencePassStep == chk.pc = "references" /\ chk'.i = chk.i + 1

\* A reference pass invalidates exactly the Valid records with a checked
\* reference that named no Valid record when the pass began.
OneHop ==
    \A r \in Records :
        LET flipped == list_by_entity(entities', r[1])[r[2]]
        IN  IF IsValid(r) /\ \E t \in CheckedRefs(r) : ~ResolvesIn(t, ValidRecords)
            THEN flipped = [Item(r) EXCEPT !.integrity_ok = FALSE]
            ELSE flipped = Item(r)

\* C5: each reference pass tests references against the Valid identities it
\* found at its start, so a record whose target is invalidated in pass n is
\* still Valid after pass n and is invalidated in pass n+1; on the cascade
\* (B names a missing package, A names B) the call reports B's violation,
\* then A's, and the markers reach their final values with the second pass.
C5_OneHopPerPass ==
    /\ [](\A a, b \in {1, 2} : (chk.calls = 1 /\ Cascade(a, b)) => CascadePasses(a, b))
    /\ [][ReferencePassStep => OneHop]_vars

\* The first call on the cascade has returned after its third pass.
C5_Witness ==
    /\ Returned /\ chk.calls = 1 /\ chk.i = 3
    /\ \E a, b \in {1, 2} :
          Cascade(a, b) /\ SelectSeq(returned[1], IsPackageMessage) = CascadeMessages(a, b)

-----------------------------------------------------------------------------
(* Properties of RegistryMigrator.migrate (Spec) *)

Called(phase) == \E j \in DOMAIN ops : ops[j] = Call(phase)

Done(phase) == \E j \in DOMAIN ops : ops[j] = Return(phase)

\* Every _run_insert of the insert phase has returned: the phase has reached
\* its commit or has returned.
InsertsRun ==
    Done("insert") \/ \E j \in DOMAIN ops : ops[j] = <<"insert", "commit", "", 0>>

\* check_integrity has returned to the migrator with at least one violation.
Violations == Len(returned) > 0 /\ Len(returned[1]) > 0

\* Every row inserted by the run stands for a Valid record of its table's
\* entity (of the snapshot, while it is held).
OnlyValidInserted ==
    \A e \in ENTITIES : \A j \in DOMAIN postgres.tables[TABLE_NAME(e)] :
        LET row == postgres.tables[TABLE_NAME(e)][j]
        IN  (row # OldRow /\ SnapshotHeld) =>
              /\ row[1] = e
              /\ row[2] \in DOMAIN list_by_entity(entities, e)
              /\ IsValid(row)

\* Every asset fetched or uploaded by the run is a Valid TemplateAsset.
OnlyValidTransferred ==
    \A j \in DOMAIN ops :
        (ops[j][2] \in {"fetch_asset", "store_template_asset"} /\ SnapshotHeld) =>
            /\ ops[j][4] \in DOMAIN entities.template_assets
            /\ entities.template_assets[ops[j][4]].integrity_ok

\* C6: with violations and fix_integrity not set the run is aborted at the
\* verification phase: no statement of the insert phase (INSERT, commit) and
\* no call of the asset transfer (fetch, upload) is ever issued; with
\* fix_integrity set the run goes on into insert and, once insert has
\* returned, into the asset transfer, and uses Valid records only.
C6_AbortOnViolations ==
    /\ (Violations /\ ~options.fix_integrity) =>
          /\ pc \in {"aborted", "finished"}
          /\ \A j \in DOMAIN ops : ops[j][1] \notin {"insert", "migrate_template_assets"}
          /\ \A t \in TABLES : postgres.tables[t] = <<>>
          /\ tally = [counter |-> 0, skipped |-> 0]
    /\ (Violations /\ options.fix_integrity) =>
          /\ pc \in {"aborted", "migrated", "finished"} => Called("insert")
          /\ (pc \in {"migrated", "finished"} /\ Done("insert")) =>
                Called("migrate_template_assets")
          /\ pc = "migrated" => Done("migrate_template_assets")
          /\ OnlyValidInserted
          /\ OnlyValidTransferred

\* A run that ended at the verification phase: violations, no fix_integrity.
C6_Witness ==
    /\ pc = "finished"
    /\ Violations
    /\ ~options.fix_integrity
    /\ Called("check_integrity")
    /\ ~Done("check_integrity")

\* C7: no Invalid record is among the instances of any INSERT (the rows and
\* the count of each batch are those of the Valid records of the entity), and
\* no Invalid TemplateAsset is fetched or uploaded.
C7_InvalidExcluded ==
    /\ OnlyValidInserted
    /\ OnlyValidTransferred
    /\ \A j \in DOMAIN ops : \A e \in ENTITIES :
          (ops[j][2] = "execute_loop" /\ ops[j][3] = TABLE_NAME(e) /\ SnapshotHeld) =>
              ops[j][4] = Cardinality({r \in ValidRecords : r[1] = e})

\* A finished run that inserted a row and transferred no asset although the
\* snapshot holds a TemplateAsset, which is Invalid.
C7_Witness ==
    /\ pc = "finished"
    /\ Done("migrate_template_assets")
    /\ \E k \in DOMAIN entities.template_assets : ~entities.template_assets[k].integrity_ok
    /\ \E t \in TABLES : Len(postgres.tables[t]) > 0

PersistingCalls == {"commit", "delete_templates", "ensure_bucket", "store_template_asset"}

\* In a dry run no persisting call has been made and the committed tables
\* are those before the run, while every DELETE and INSERT is issued and
\* counted.
DryRunState ==
    options.dry_run =>
        /\ \A j \in DOMAIN ops : ops[j][2] \notin PersistingCalls
        /\ postgres.committed = InitPostgres.committed
        /\ Done("cleanup_postgres") =>
              \A t \in TABLES : \E j \in DOMAIN ops :
                  ops[j] = <<"cleanup_postgres", "DELETE FROM", t, Len(InitPostgres.tables[t])>>
        /\ (Done("insert") /\ SnapshotHeld) =>
              \A e \in ENTITIES : \E j \in DOMAIN ops :
                  ops[j] = <<"insert", "execute_loop", TABLE_NAME(e),
                             Cardinality({r \in ValidRecords : r[1] = e})>>

\* No step of a dry run changes the committed tables or the object store.
DryRunStep == options.dry_run => postgres'.committed = postgres.committed /\ s3' = s3

\* C8: in a dry run the DELETE and INSERT statements are executed and
\* counted, but commit, delete_templates, ensure_bucket and
\* store_template_asset are never called, so the committed contents of the
\* target store and the object store never change.
C8_DryRun == []DryRunState /\ [][DryRunStep]_vars

\* A finished dry run that inserted rows and fetched an asset with a payload,
\* the bucket still holding what it held before.
C8_Witness ==
    /\ options.dry_run
    /\ pc = "finished"
    /\ Done("migrate_template_assets")
    /\ tally.counter > 0
    /\ s3.objects = {OldObject}
    /\ \E t \in TABLES : Len(postgres.tables[t]) > 0

\* The phases in the order C9 gives them; finish follows the run.
PhaseOrder ==
    <<"cleanup_postgres", "cleanup_s3", "load", "check_integrity", "insert",
      "migrate_template_assets", "finish">>

PhaseIndex(phase) == CHOOSE k \in DOMAIN PhaseOrder : PhaseOrder[k] = phase

\* The phase was entered and raised a fatal error.
Failed(phase) == Called(phase) /\ ~Done(phase) /\ pc \in {"aborted", "finished"}

\* C9: the calls of the run are those of the phases in order (cleanup of the
\* target store, preparation of the object store, load, verification, insert,
\* asset transfer), each phase entered only when the one before it has
\* returned; after a phase fails no call of a later phase is issued.
C9_PhaseOrder ==
    /\ \A j \in DOMAIN ops : ops[j][1] \in {PhaseOrder[k] : k \in DOMAIN PhaseOrder}
    /\ ops # <<>> => ops[1] = Call("cleanup_postgres")
    /\ \A j \in 1 .. (Len(ops) - 1) :
          LET p == ops[j][1]
              q == ops[j + 1][1]
          IN  /\ PhaseIndex(p) <= PhaseIndex(q)
              /\ (p # q /\ q # "finish") =>
                    /\ ops[j] = Return(p)
                    /\ ops[j + 1] = Call(q)
                    /\ PhaseIndex(q) = PhaseIndex(p) + 1
              /\ p = q => ops[j + 1] # Call(q)
    /\ \A p \in {MIGRATE[k] : k \in DOMAIN MIGRATE} :
          Failed(p) => \A j \in DOMAIN ops :
                          PhaseIndex(ops[j][1]) > PhaseIndex(p) => ops[j][1] = "finish"
    /\ pc = "aborted" => \E p \in {MIGRATE[k] : k \in DOMAIN MIGRATE} : Failed(p)
    /\ pc = "migrated" => \A k \in DOMAIN MIGRATE : Done(MIGRATE[k])

\* A run whose insert commit raised: the five phases before it returned in
\* order and the asset transfer was never entered.
C9_Witness ==
    /\ pc = "finished"
    /\ Failed("insert")
    /\ Len(ops) >= 2
    /\ ops[Len(ops) - 1] = <<"insert", "commit", "", 0>>
    /\ Done("check_integrity")

\* C10 as stated: when the run has ended, on whichever path, every store
\* connection the migrator held has been released exactly once.
C10_AllReleasedOnce ==
    pc = "finished" => postgres.closes = 1 /\ mongo.closes = 1 /\ s3.closes = 1

\* The calls of the insert phase between its entry and its commit or return.
InsertCalls ==
    SelectSeq(ops, LAMBDA o : o[1] = "insert" /\ o[2] \in {"disable_triggers", "execute_loop",
                                                         "enable_triggers"})

\* The order C11 gives: triggers are off around the package INSERT only.
InsertOrder ==
    << <<"insert", "disable_triggers", "package">>,
       <<"insert", "execute_loop", "package">>,
       <<"insert", "enable_triggers", "package">>,
       <<"insert", "execute_loop", "template">>,
       <<"insert", "execute_loop", "audit">>,
       <<"insert", "execute_loop", "organization">>,
       <<"insert", "execute_loop", "action_key">>,
       <<"insert", "execute_loop", "template_asset">>,
       <<"insert", "execute_loop", "template_file">> >>

\* The calls issued so far are the first ones of the order C11 gives, and
\* all of them once every _run_insert has returned.
InsertCallsOrdered ==
    /\ Len(InsertCalls) <= Len(InsertOrder)
    /\ \A j \in DOMAIN InsertCalls :
          <<InsertCalls[j][1], InsertCalls[j][2], InsertCalls[j][3]>> = InsertOrder[j]
    /\ InsertsRun => Len(InsertCalls) = Len(InsertOrder)
    /\ ~Called("insert") => InsertCalls = <<>>

\* The triggers of every table are enabled when the insert phase has ended,
\* however it ended.
TriggersEnabledAtEnd == Called("insert") => \A t \in TABLES : postgres.triggers[t]

\* C11 as stated: the insert phase issues its INSERTs in the order Package,
\* Template, AuditEntry, Organization, ActionKey, TemplateAsset,
\* TemplateFile; triggers are disabled on the package table only, just
\* before the Package INSERT, and enabled again just after it, before any
\* other INSERT; whenever the insert phase ends, the triggers of the
\* package table are enabled.
C11_InsertOrder == InsertCallsOrdered /\ TriggersEnabledAtEnd

\* The Package INSERT raised: the phase has ended, its last call is that
\* execute_loop, enable_triggers was never called and the triggers of the
\* package table are disabled.
C11_Witness ==
    /\ Failed("insert")
    /\ ops[Len(ops)][1] = "insert"
    /\ ops[Len(ops)][2] = "execute_loop"
    /\ ops[Len(ops)][3] = "package"
    /\ ~postgres.triggers["package"]
    /\ \A t \in TABLES \ {"package"} : postgres.triggers[t]

\* Positions of the Valid TemplateAssets, and of those with a payload in the
\* source store.
ValidAssets == {k \in DOMAIN entities.template_assets : entities.template_assets[k].integrity_ok}

AssetsWithPayload ==
    {k \in ValidAssets : entities.template_assets[k].original_uuid \in mongo.payloads}

AssetCalls(call, k) ==
    {j \in DOMAIN ops : ops[j] = <<"migrate_template_assets", call, "TemplateAsset", k>>}

AllAssetCalls(call) ==
    {j \in DOMAIN ops : ops[j][1] = "migrate_template_assets" /\ ops[j][2] = call}

\* C12: when the asset transfer has ended, every Valid TemplateAsset has been
\* fetched exactly once and no other asset at all; those without payload
\* are counted as skipped, the others as transferred, so transferred plus
\* skipped is the number of Valid TemplateAssets; outside a dry run there is
\* one store_template_asset call per transferred asset, in a dry run none.
\* Whether the transfer has ended or an exception of a store client has cut
\* it short, no Valid TemplateAsset is fetched twice, and none is stored
\* more often than it was fetched.
C12_AssetSkip ==
    /\ (Done("migrate_template_assets") /\ SnapshotHeld) =>
          /\ \A k \in ValidAssets : Cardinality(AssetCalls("fetch_asset", k)) = 1
          /\ Cardinality(AllAssetCalls("fetch_asset")) = Cardinality(ValidAssets)
          /\ tally.skipped = Cardinality(ValidAssets \ AssetsWithPayload)
          /\ tally.counter = Cardinality(AssetsWithPayload)
          /\ tally.counter + tally.skipped = Cardinality(ValidAssets)
          /\ ~options.dry_run =>
                /\ Cardinality(AllAssetCalls("store_template_asset")) = tally.counter
                /\ \A k \in AssetsWithPayload :
                      Cardinality(AssetCalls("store_template_asset", k)) = 1
          /\ options.dry_run => AllAssetCalls("store_template_asset") = {}
    /\ (Called("migrate_template_assets") /\ SnapshotHeld) =>
          \A k \in ValidAssets :
              /\ Cardinality(AssetCalls("fetch_asset", k)) <= 1
              /\ Cardinality(AssetCalls("store_template_asset", k))
                    <= Cardinality(AssetCalls("fetch_asset", k))

\* A finished run outside dry run whose first Valid asset had no payload and
\* was skipped, and whose second was transferred.
C12_Witness ==
    /\ pc = "finished"
    /\ ~options.dry_run
    /\ Done("migrate_template_assets")
    /\ ValidAssets = {1, 2}
    /\ AssetsWithPayload = {2}
    /\ tally = [counter |-> 1, skipped |-> 1]

\* C13 as stated: the number of reference passes of a call is bounded by the
\* number of records of the snapshot.
C13_PassesWithinRecords == SnapshotHeld => chk.i <= Cardinality(Records)

\* A pass that asks for another one has invalidated a Valid record; a pass
\* that ends the loop has changed nothing.
PassProgress ==
    /\ chk'.check_again => (ValidRecords' \subseteq ValidRecords /\ ValidRecords' # ValidRecords)
    /\ ~chk'.check_again => entities' = entities

\* C13, amended: every call of check_integrity returns; each pass but the
\* last invalidates at least one Valid record and the last one finds
\* nothing, so a call makes at most one pass more than the snapshot has
\* records (counted while the call runs or the snapshot is held); nothing
\* else ends the loop.
C13_Terminates ==
    /\ []((CallRunning \/ SnapshotHeld) => chk.i <= Cardinality(Records) + 1)
    /\ [][ReferencePassStep => PassProgress]_vars
    /\ CallRunning ~> Returned

\* A call on two records that returned after three passes.
C13_Witness ==
    /\ Returned
    /\ Cardinality(Records) = 2
    /\ chk.i = 3

\* The messages a step appends to the result.
NewMessages == {j \in DOMAIN entities'.result : j > Len(entities.result)}

\* A reference pass appends one message for each record it flips, about that
\* record, and none about a record that was Invalid before the pass.
InvalidSkipped ==
    /\ Cardinality(NewMessages) = Cardinality(ValidRecords \ ValidRecords')
    /\ \A j \in NewMessages :
          /\ IsMissingMessage(entities'.result[j])
          /\ \E r \in ValidRecords \ ValidRecords' :
                entities'.result[j][6] = r[1] /\ entities'.result[j][7] = IdOf(r)

\* C14: once a snapshot is loaded no step (uniqueness pass, reference pass,
\* return, a further call) makes an Invalid record Valid, so the set of Valid
\* records only shrinks; and a reference pass skips every record that is
\* already Invalid: it appends no message about it.
C14_NeverRevalidated ==
    [][pc = "check_integrity" =>
          /\ ValidRecords' \subseteq ValidRecords
          /\ ReferencePassStep => InvalidSkipped
      ]_vars

\* The first pass of a second call has been made: a record invalidated by
\* the first call for a reference that names nothing is still Invalid, and
\* no Missing message has been appended.
C14_Witness ==
    /\ chk.calls = 2 /\ chk.pc = "references" /\ chk.i = 1
    /\ \E r \in Records \ ValidRecords :
          /\ ~LaterDuplicate(r)
          /\ \E t \in CheckedRefs(r) : ~ResolvesIn(t, Records)
    /\ \A j \in DOMAIN entities.result : ~IsMissingMessage(entities.result[j])

\* The AuditEntry at position k names no Valid Organization.
AuditUnresolved(k) ==
    ~ResolvesIn(<<"Organization", entities.audit_entries[k].organization_id>>, ValidRecords)

\* C15: no step of check_integrity flips an AuditEntry, whatever its
\* organization_id names (no Organization, or an Invalid one): every
\* AuditEntry is Valid in every state, and once the INSERTs have been made
\* every AuditEntry has its row in the audit table.
C15_AuditUnchecked ==
    /\ \A k \in DOMAIN entities.audit_entries : entities.audit_entries[k].integrity_ok
    /\ \A j \in DOMAIN entities.result :
          IsMissingMessage(entities.result[j]) => entities.result[j][6] # "AuditEntry"
    /\ InsertsRun =>
          \A k \in DOMAIN entities.audit_entries :
              \E j \in DOMAIN postgres.tables["audit"] :
                  postgres.tables["audit"][j] = <<"AuditEntry", k>>

\* A finished run that inserted an AuditEntry whose organization_id names no
\* Valid Organization.
C15_Witness ==
    /\ pc = "finished"
    /\ Done("insert")
    /\ \E k \in DOMAIN entities.audit_entries :
          /\ AuditUnresolved(k)
          /\ \E j \in DOMAIN postgres.tables["audit"] :
                postgres.tables["audit"][j] = <<"AuditEntry", k>>

AllRefsNull(r) == \A f \in PackageRefFields : Item(r)[f] = Null

\* C16: no Missing message is ever appended for a reference field whose
\* value is null, so a null previous, fork-of or merge-checkpoint id never
\* invalidates its Package, whatever the other packages are; a Package
\* whose three fields are null is Invalid only as a later duplicate.
C16_NullOptional ==
    /\ \A j \in DOMAIN entities.result :
          IsMissingMessage(entities.result[j]) => entities.result[j][4] # Null
    /\ \A r \in Records :
          (r[1] = "Package" /\ ~IsValid(r)) =>
              \/ LaterDuplicate(r)
              \/ \E t \in CheckedRefs(r) : ~ResolvesIn(t, ValidRecords)
    /\ \A r \in Records :
          (r[1] = "Package" /\ AllRefsNull(r) /\ ~IsValid(r)) => LaterDuplicate(r)

\* A returned call: a Package with three null fields is Valid beside a
\* Package that was invalidated.
C16_Witness ==
    /\ Returned
    /\ \E r, q \in Records :
          /\ r[1] = "Package" /\ q[1] = "Package"
          /\ AllRefsNull(r) /\ IsValid(r)
          /\ ~IsValid(q) /\ ~LaterDuplicate(q)

\* Positions in the log of the DELETE statements issued on the table.
DeletesOf(table) ==
    {j \in DOMAIN ops : /\ ops[j][1] = "cleanup_postgres"
                        /\ ops[j][2] = "DELETE FROM"
                        /\ ops[j][3] = table}

CleanupCommitted == \E j \in DOMAIN ops : ops[j] = <<"cleanup_postgres", "commit", "", 0>>

\* C17: the cleanup issues its DELETEs children before parents (action_key
\* before organization, template_asset and template_file before template);
\* when no statement raises, all seven are issued, each table once, with or
\* without dry_run, and the commit follows them if and only if dry_run is
\* not set.
C17_CleanupOrder ==
    LET deletes == [t \in TABLES |-> DeletesOf(t)]
        before(child, parent) ==
            \A j \in deletes[parent] : \E k \in deletes[child] : k < j
    IN  /\ \A t \in TABLES : Cardinality(deletes[t]) <= 1
        /\ \A j \in DOMAIN ops : ops[j][2] = "DELETE FROM" => ops[j][3] \in TABLES
        /\ before("action_key", "organization")
        /\ before("template_asset", "template")
        /\ before("template_file", "template")
        /\ (Done("cleanup_postgres") \/ CleanupCommitted) =>
              \A t \in TABLES : Cardinality(deletes[t]) = 1
        /\ \A j \in DOMAIN ops :
              ops[j] = <<"cleanup_postgres", "commit", "", 0>> =>
                  \A t \in TABLES : \E k \in deletes[t] : k < j
        /\ Done("cleanup_postgres") => (CleanupCommitted <=> ~options.dry_run)
        /\ CleanupCommitted => ~options.dry_run

\* A dry run whose cleanup returned: seven DELETEs, no commit.
C17_Witness ==
    /\ options.dry_run
    /\ Done("cleanup_postgres")
    /\ \A t \in TABLES : DeletesOf(t) # {}
    /\ ~CleanupCommitted
    /\ pc = "cleanup_s3"

\* The messages of the result about records of the entity with the identity.
MessagesAbout(e, v) ==
    {j \in DOMAIN entities.result :
        \/ entities.result[j] = DuplicateMessage(e, v)
        \/ /\ IsMissingMessage(entities.result[j])
           /\ entities.result[j][6] = e
           /\ entities.result[j][7] = v}

InvalidWith(e, v) == {r \in Records \ ValidRecords : r[1] = e /\ IdOf(r) = v}

\* C18: during and at the return of the first call on a freshly loaded
\* snapshot there is exactly one message per Invalid record and none about
\* any other record: the list is as long as the number of Invalid records,
\* also when a record has several unresolved references or is a duplicate
\* with an unresolved reference.  (Stated while the snapshot is held:
\* clear() removes the records and keeps the messages.)
C18_OneMessagePerRecord ==
    (chk.calls = 1 /\ SnapshotHeld) =>
        /\ Len(entities.result) = Cardinality(Records \ ValidRecords)
        /\ \A e \in ENTITIES \ {"AuditEntry"} : \A v \in Ids :
              Cardinality(MessagesAbout(e, v)) = Cardinality(InvalidWith(e, v))
        /\ Returned => returned[1] = entities.result

\* The first call has returned one message for a Package with two references
\* that name nothing.
C18_Witness ==
    /\ Returned /\ chk.calls = 1
    /\ Len(returned[1]) = 1
    /\ \E r \in Records \ ValidRecords :
          /\ r[1] = "Package"
          /\ Item(r).previous_package_id # Null
          /\ Item(r).fork_of_package_id # Null
          /\ \A t \in CheckedRefs(r) : ~ResolvesIn(t, Records)

\* The records that have a row in the table of their entity.
InsertedRecords ==
    {r \in Records : \E j \in DOMAIN postgres.tables[TABLE_NAME(r[1])] :
                        postgres.tables[TABLE_NAME(r[1])][j] = r}

\* Positions of the TemplateAssets uploaded to the object store: those
\* store_template_asset was called for.
UploadedAssets == {ops[j][4] : j \in AllAssetCalls("store_template_asset")}

\* Those whose store_template_asset call returned: the phase went on after it.
StoredAssets ==
    {ops[j][4] : j \in {i \in AllAssetCalls("store_template_asset") :
                            \E n \in DOMAIN ops :
                                n > i /\ ops[n][1] = "migrate_template_assets"}}

\* C19: once the INSERTs of the insert phase have been made, the rows of
\* each table are the records the checker counts as Valid (valid_entries),
\* one row each; every checked reference of an inserted record names an
\* inserted record of the target kind; and every uploaded asset has its
\* TemplateAsset row and the row of its Template, and is in the object store
\* once its store_template_asset call has returned.  If an INSERT raises, the
\* rows made before it are Valid records whose references name inserted
\* records, and no asset is uploaded.
C19_MutuallyConsistent ==
    (Called("insert") /\ SnapshotHeld) =>
        /\ \A e \in ENTITIES :
              /\ {r \in InsertedRecords : r[1] = e} \subseteq
                    {<<e, k>> : k \in valid_entries(entities, e)}
              /\ Len(postgres.tables[TABLE_NAME(e)]) =
                    Cardinality({r \in InsertedRecords : r[1] = e})
              /\ InsertsRun =>
                    /\ {r \in InsertedRecords : r[1] = e} =
                          {<<e, k>> : k \in valid_entries(entities, e)}
                    /\ Len(postgres.tables[TABLE_NAME(e)]) =
                          Cardinality(valid_entries(entities, e))
        /\ ~InsertsRun => UploadedAssets = {}
        /\ \A r \in InsertedRecords : \A t \in CheckedRefs(r) : ResolvesIn(t, InsertedRecords)
        /\ \A k \in UploadedAssets :
              /\ <<"TemplateAsset", k>> \in InsertedRecords
              /\ ResolvesIn(<<"Template", entities.template_assets[k].template_id>>,
                            InsertedRecords)
        /\ \A k \in StoredAssets :
              <<entities.template_assets[k].template_id, entities.template_assets[k].uuid>>
                  \in s3.objects
        /\ \A o \in s3.objects :
              o # OldObject =>
                  \E k \in UploadedAssets :
                      o = <<entities.template_assets[k].template_id,
                            entities.template_assets[k].uuid>>

\* A finished run that inserted a Template and its TemplateAsset and uploaded
\* the asset.
C19_Witness ==
    /\ pc = "finished"
    /\ Done("migrate_template_assets")
    /\ UploadedAssets = {1}
    /\ <<"TemplateAsset", 1>> \in InsertedRecords
    /\ <<"Template", 1>> \in InsertedRecords

\* Position in the log of the first call equal to o, or 0 if there is none.
FirstAt(o) ==
    IF \E j \in DOMAIN ops : ops[j] = o
    THEN CHOOSE j \in DOMAIN ops : ops[j] = o /\ \A k \in 1 .. (j - 1) : ops[k] # o
    ELSE 0

\* C20: outside a dry run the commit of the DELETEs and the deletion of the
\* stored templates come before load and verification: when load is
\* entered the committed tables and the bucket are already empty; so a run
\* that is aborted at verification (violations, no fix_integrity) ends with
\* the committed tables and the bucket emptied, nothing inserted, and the
\* target store not as it was before the run.
C20_CleanupBeforeCheck ==
    ~options.dry_run =>
        /\ Called("load") =>
              /\ CleanupCommitted
              /\ FirstAt(<<"cleanup_postgres", "commit", "", 0>>) < FirstAt(Call("load"))
              /\ \A j \in DOMAIN ops :
                    ops[j][2] \in {"delete_templates", "ensure_bucket"} => j < FirstAt(Call("load"))
              /\ ~Called("insert") => \A t \in TABLES : postgres.committed[t] = <<>>
              /\ s3.bucket
              /\ ~Called("migrate_template_assets") => s3.objects = {}
        /\ (Violations /\ ~options.fix_integrity) =>
              /\ pc \in {"aborted", "finished"}
              /\ \A t \in TABLES : postgres.committed[t] = <<>> /\ postgres.tables[t] = <<>>
              /\ postgres.committed # InitPostgres.committed
              /\ s3.objects = {}

\* A run that was aborted at verification after it had committed the
\* DELETEs and deleted the templates the bucket held.
C20_Witness ==
    /\ pc = "finished"
    /\ ~options.dry_run
    /\ ~options.fix_integrity
    /\ Violations
    /\ \E j \in DOMAIN ops : ops[j][2] = "delete_templates"
    /\ \A t \in TABLES : postgres.committed[t] = <<>>
    /\ s3.objects = {}

=============================================================================
